---- MODULE Spec2Model ----
(***************************************************************************)
(* The Contracts service: commands arrive on the ingest queue, the         *)
(* ContractEventHandlerFunction applies them to the contracts table with a *)
(* conditional UpdateItem, the table's stream feeds the                    *)
(* ContractsTableStreamToEventPipe, which filters and publishes            *)
(* ContractStatusChanged events, and the ContractExistsCheckerFunction     *)
(* reads the table.                                                        *)
(***************************************************************************)
EXTENDS Integers, Sequences, FiniteSets, Bags, TLC

VARIABLES
    table,        \* the contracts table: property_id -> item, for the keys present
    stream,       \* the table's stream, per key: sequence of change records
    ingestQueue,  \* visible messages of UnicornContractsIngestQueue
    ingestDLQ,    \* messages of UnicornContractsIngestDLQ
    invocations,  \* in-flight invocations of ContractEventHandlerFunction.handler
    budget,       \* requests (commands, existence checks) the callers may still make
    handled,      \* history: one entry per queue record the handler has looked at,
                  \* with the table it found
    pipePos,      \* per key, number of stream records the pipe has finished with
    pipeAttempts, \* per key, failed delivery attempts of the current record
    pipeDLQ,      \* stream records sent to ContractsTableStreamToEventPipeDLQ
    bus,          \* events put on the contracts event bus, in order
    duplicates,   \* history: delivery attempts reported failed whose event reached the bus
    checkCount,   \* number of existence checks made
    lastCheck,    \* the last existence check: request, response, and how many
                  \* queue records had been handled when it read the table
    propertiesBus, \* events on UnicornPropertiesEventBus, in order
    sent          \* history: one entry per call of a send function, with how
                  \* PutEvents ended and how the function returned

vars == <<table, stream, ingestQueue, ingestDLQ, invocations, budget,
          handled, pipePos, pipeAttempts, pipeDLQ, bus, duplicates, checkCount,
          lastCheck, propertiesBus, sent>>

(* ----------------------------- bounds ---------------------------------- *)
MaxRequests == 2
MaxDuplicates == 1
MaxSends == 2

(* ------------------------- program constants --------------------------- *)
maxConcurrency == 5
batchSize == 1
maxReceiveCount == 1
maximumRetryAttempts == 3
NotFoundStatusCode == 400

Properties == {"p1", "p2"}

\* Timestamps new Date() may give; the items present at the start were
\* last modified at 0.
Times == {1}

DRAFT == "DRAFT"
APPROVED == "APPROVED"
CANCELLED == "CANCELLED"

(* ------------------------- the contracts table ------------------------- *)

\* An item is a function from the attribute names it has to their values.
Item(p, cid, status) ==
    [property_id |-> p, contract_id |-> cid, contract_status |-> status,
     contract_last_modified_on |-> 0]

ItemWithoutContractId(p, status) ==
    [property_id |-> p, contract_status |-> status, contract_last_modified_on |-> 0]

ItemWithoutStatus(p, cid) ==
    [property_id |-> p, contract_id |-> cid, contract_last_modified_on |-> 0]

\* What the table and the stream may hold for key p when the run starts:
\* no item or one item, written before the run by a writer other than
\* this run's commands, and at most one change record of that write which
\* the pipe has not read yet.
Settled(items) == {[item |-> <<i>>, pending |-> <<>>] : i \in items}

Inserted(items) ==
    {[item |-> <<i>>,
      pending |-> <<[eventName |-> "INSERT", NewImage |-> i, by |-> 0]>>] : i \in items}

Removed(items) ==
    {[item |-> <<>>,
      pending |-> <<[eventName |-> "REMOVE", OldImage |-> i, by |-> 0]>>] : i \in items}

Starts(p) ==
    IF p = "p1"
    THEN {[item |-> <<>>, pending |-> <<>>]}
         \cup Settled({Item(p, "c1", DRAFT), Item(p, "c1", APPROVED),
                       Item(p, "", DRAFT), ItemWithoutContractId(p, DRAFT)})
         \cup Inserted({Item(p, "c1", DRAFT), Item(p, "c1", CANCELLED),
                        ItemWithoutStatus(p, "c1")})
    ELSE Settled({Item(p, "c2", DRAFT)}) \cup Removed({Item(p, "c2", DRAFT)})

StartChoices ==
    {f \in [Properties -> UNION {Starts(p) : p \in Properties}] :
        \A p \in Properties : f[p] \in Starts(p)}

StartTable(f) ==
    [p \in {q \in Properties : f[q].item # <<>>} |-> f[p].item[1]]

StartStream(f) == [p \in Properties |-> f[p].pending]

HasAttr(item, a) == a \in DOMAIN item

\* Override: the attributes of upd replace or extend those of item.
SetAttrs(item, upd) ==
    [a \in (DOMAIN item) \cup (DOMAIN upd) |->
        IF a \in DOMAIN upd THEN upd[a] ELSE item[a]]

\* The table without p's item, and with p's item set.
PutItem(t, p, item) ==
    [k \in (DOMAIN t) \cup {p} |-> IF k = p THEN item ELSE t[k]]

(* ----------------------- command handler: pieces ----------------------- *)

\* A queue message: the HttpMethod message attribute and the body. The body
\* is JSON text of a contract, or text that is not JSON.
JsonBody(p, cid) == [json |-> TRUE, property_id |-> p, contract_id |-> cid]

BodyWithoutContractId(p) == [json |-> TRUE, property_id |-> p]

NotJsonBody == [json |-> FALSE]

Command(method, body) == [method |-> method, body |-> body]

\* The requests the callers make: a create and an update for each key, an
\* update that names no contract, a request with a method the handler does
\* not know, and a malformed one.
Commands ==
    {Command(m, JsonBody(p, "c1")) : m \in {"POST", "PUT"}, p \in Properties}
    \cup {Command("PUT", BodyWithoutContractId("p1")),
          Command("DELETE", JsonBody("p1", "c1")), Command("PUT", NotJsonBody)}

\* parseRecord: JSON.parse(record.body); a body that is not JSON throws.
parseRecordThrows(body) == ~body.json

parseRecord(body) ==
    [a \in (DOMAIN body) \ {"json"} |-> body[a]]

\* Variants of the condition: without the status test, and with no condition.
ConditionWithoutStatus(t, p) == p \in DOMAIN t /\ HasAttr(t[p], "property_id")

ConditionAlways(t, p) == TRUE

\* ConditionExpression of updateContract, evaluated on the stored item:
\* 'attribute_exists(property_id) AND contract_status = :DRAFT'.
ConditionExpression(t, p) ==
    /\ p \in DOMAIN t
    /\ HasAttr(t[p], "property_id")
    /\ HasAttr(t[p], "contract_status")
    /\ t[p]["contract_status"] = DRAFT

\* A variant of the write that puts the record updateContract builds in
\* place of the stored item.
UpdateReplacesItem(t, p, status, modifiedDate) ==
    [property_id |-> p, contract_status |-> status, modified_date |-> modifiedDate]

\* UpdateExpression of updateContract: "set contract_status = :t, modified_date = :m".
\* UpdateItem on a key without an item starts from the key alone.
UpdateExpression(t, p, status, modifiedDate) ==
    SetAttrs(IF p \in DOMAIN t THEN t[p] ELSE [property_id |-> p],
             [contract_status |-> status, modified_date |-> modifiedDate])

\* The change record DynamoDB appends for a committed write (NEW_AND_OLD_IMAGES);
\* by is history: the position in handled of the command that wrote (0: none).
ChangeRecord(t, p, newItem, by) ==
    IF p \in DOMAIN t
    THEN [eventName |-> "MODIFY", OldImage |-> t[p], NewImage |-> newItem, by |-> by]
    ELSE [eventName |-> "INSERT", NewImage |-> newItem, by |-> by]

(* --------------------------- ingest queue ------------------------------ *)

\* API Gateway puts the request on the ingest queue; the HTTP method travels
\* as the HttpMethod message attribute. The queues are bags of messages.
SendCommand(cmd) ==
    /\ budget > 0
    /\ ingestQueue' = ingestQueue (+)
         SetToBag({[method |-> cmd.method, body |-> cmd.body, receiveCount |-> 0]})
    /\ budget' = budget - 1
    /\ UNCHANGED <<table, stream, ingestDLQ, invocations, handled, pipePos,
                   pipeAttempts, pipeDLQ, bus, duplicates, checkCount, lastCheck,
                   propertiesBus, sent>>

ApiRequest == \E cmd \in Commands : SendCommand(cmd)

BagOfSeq(s) ==
    [m \in {s[i] : i \in DOMAIN s} |-> Cardinality({i \in DOMAIN s : s[i] = m})]

\* A variant of the event source that takes a message again however often
\* it was received.
BatchesRedelivering(queue) ==
    {batch \in UNION {[1..n -> BagToSet(queue)] : n \in 1..batchSize} :
        BagOfSeq(batch) \sqsubseteq queue}

\* The batches the event source can take from the queue: up to batchSize
\* visible messages, none of which has used up its receives.
Batches(queue) ==
    {batch \in UNION {[1..n -> BagToSet(queue)] : n \in 1..batchSize} :
        /\ BagOfSeq(batch) \sqsubseteq queue
        /\ \A i \in DOMAIN batch : batch[i].receiveCount < maxReceiveCount}

\* The SQS event source hands one batch to a new invocation, while fewer
\* than maxConcurrency invocations are running.
Invoke(batch) ==
    /\ BagCardinality(invocations) < maxConcurrency
    /\ invocations' = invocations (+) SetToBag({
           [Records |-> [i \in DOMAIN batch |->
                            [batch[i] EXCEPT !.receiveCount = @ + 1]],
            idx |-> 1]})
    /\ ingestQueue' = ingestQueue (-) BagOfSeq(batch)
    /\ UNCHANGED <<table, stream, ingestDLQ, budget, handled, pipePos,
                   pipeAttempts, pipeDLQ, bus, duplicates, checkCount, lastCheck,
                   propertiesBus, sent>>

LambdaPoll == \E batch \in Batches(ingestQueue) : Invoke(batch)

\* A message already received maxReceiveCount times is moved to the
\* dead-letter queue instead of being delivered again.
Redrive(m) ==
    /\ BagIn(m, ingestQueue)
    /\ m.receiveCount >= maxReceiveCount
    /\ ingestQueue' = ingestQueue (-) SetToBag({m})
    /\ ingestDLQ' = ingestDLQ (+) SetToBag({m})
    /\ UNCHANGED <<table, stream, invocations, budget, handled, pipePos,
                   pipeAttempts, pipeDLQ, bus, duplicates, checkCount, lastCheck,
                   propertiesBus, sent>>

IngestRedrive == \E m \in BagToSet(ingestQueue) : Redrive(m)

(* ---------------------- ContractEventHandlerFunction ------------------- *)

\* The branch handler() takes for one queue record.
Branch(rec) ==
    IF parseRecordThrows(rec.body) THEN "parse"
    ELSE IF rec.method = "POST" THEN "POST"
    ELSE IF rec.method = "PUT" THEN "PUT"
    ELSE "default"

\* A variant in which the update is never rejected.
updateContractNeverThrows(t, contract) == FALSE

\* updateContract sends one UpdateItem; DynamoDB evaluates the condition and
\* applies the update atomically, and the client throws
\* ConditionalCheckFailedException when the condition fails.
updateContractThrows(t, contract) ==
    ~ConditionExpression(t, contract.property_id)

updateContractTable(t, contract, modifiedDate) ==
    PutItem(t, contract.property_id,
            UpdateExpression(t, contract.property_id, APPROVED, modifiedDate))

\* Whether handler() throws on this record, ending the invocation in error.
RecordThrows(t, rec) ==
    CASE Branch(rec) = "parse" -> TRUE
      [] Branch(rec) = "POST" -> FALSE
      [] Branch(rec) = "PUT" -> updateContractThrows(t, parseRecord(rec.body))
      [] OTHER -> FALSE

\* Whether handler() writes to the table on this record.
RecordWrites(t, rec) ==
    /\ Branch(rec) = "PUT"
    /\ ~updateContractThrows(t, parseRecord(rec.body))

\* One iteration of the loop over event.Records. A throw ends the invocation
\* in error and its batch becomes visible on the queue again; after the last
\* record handler() resolves and the batch is deleted from the queue.
HandleRecord(inv, modifiedDate) ==
    /\ BagIn(inv, invocations)
    /\ inv.idx <= Len(inv.Records)
    /\ LET rec == inv.Records[inv.idx]
           threw == RecordThrows(table, rec)
           wrote == RecordWrites(table, rec)
           contract == parseRecord(rec.body)
           p == contract.property_id
           newTable == updateContractTable(table, contract, modifiedDate)
       IN /\ table' = IF wrote THEN newTable ELSE table
          /\ stream' = IF wrote
                       THEN [stream EXCEPT ![p] =
                               Append(@, ChangeRecord(table, p, newTable[p],
                                                      Len(handled) + 1))]
                       ELSE stream
          /\ handled' = Append(handled,
                 [method |-> rec.method, body |-> rec.body,
                  branch |-> Branch(rec), threw |-> threw, wrote |-> wrote,
                  modifiedDate |-> modifiedDate, before |-> table,
                  idx |-> inv.idx, batchLen |-> Len(inv.Records)])
          /\ invocations' =
                 IF threw \/ inv.idx = Len(inv.Records)
                 THEN invocations (-) SetToBag({inv})
                 ELSE (invocations (-) SetToBag({inv}))
                          (+) SetToBag({[inv EXCEPT !.idx = @ + 1]})
          /\ ingestQueue' =
                 IF threw THEN ingestQueue (+) BagOfSeq(inv.Records) ELSE ingestQueue
    /\ UNCHANGED <<ingestDLQ, budget, pipePos, pipeAttempts,
                   pipeDLQ, bus, duplicates, checkCount, lastCheck,
                   propertiesBus, sent>>

\* new Date() is read on the host the invocation runs on.
HandlerStep ==
    \E inv \in BagToSet(invocations), modifiedDate \in Times :
        HandleRecord(inv, modifiedDate)

(* ------------------ ContractsTableStreamToEventPipe -------------------- *)

MonitoredEventNames == {"INSERT", "MODIFY"}
MonitoredStatuses == {DRAFT, APPROVED}

\* A variant of the filter that tests the event name only.
filterWithoutStatus(rec) == rec.eventName \in MonitoredEventNames

\* filterCriteria: eventName in ["INSERT","MODIFY"] and
\* dynamodb.NewImage.contract_status.S in ["DRAFT","APPROVED"].
filterCriteria(rec) ==
    /\ rec.eventName \in MonitoredEventNames
    /\ "NewImage" \in DOMAIN rec
    /\ HasAttr(rec.NewImage, "contract_status")
    /\ rec.NewImage["contract_status"] \in MonitoredStatuses

\* A template variable whose path is not in the record renders as nothing.
TemplateValue(image, a) == IF HasAttr(image, a) THEN image[a] ELSE ""

\* A variant of the template that announces every admitted record as APPROVED.
inputTemplateApproved(rec) ==
    [source |-> "unicorn.contracts",
     detailType |-> "ContractStatusChanged",
     detail |-> [property_id |-> TemplateValue(rec.NewImage, "property_id"),
                 contract_id |-> TemplateValue(rec.NewImage, "contract_id"),
                 contract_status |-> APPROVED,
                 contract_last_modified_on |->
                     TemplateValue(rec.NewImage, "contract_last_modified_on")]]

\* targetParameters: the event put on the bus for an admitted record.
inputTemplate(rec) ==
    [source |-> "unicorn.contracts",
     detailType |-> "ContractStatusChanged",
     detail |-> [property_id |-> TemplateValue(rec.NewImage, "property_id"),
                 contract_id |-> TemplateValue(rec.NewImage, "contract_id"),
                 contract_status |-> TemplateValue(rec.NewImage, "contract_status"),
                 contract_last_modified_on |->
                     TemplateValue(rec.NewImage, "contract_last_modified_on")]]

PipePending(p) == pipePos[p] < Len(stream[p])

PipeCurrent(p) == stream[p][pipePos[p] + 1]

\* What is put on the bus or on the dead-letter queue for the current record
\* of key p; key and seq are history: the place of the record in the stream.
BusEntry(p) ==
    [event |-> inputTemplate(PipeCurrent(p)), key |-> p, seq |-> pipePos[p] + 1]

DeadLetter(p) ==
    [record |-> PipeCurrent(p), key |-> p, seq |-> pipePos[p] + 1]

\* A variant of the pipe without a dead-letter path.
PipeNeverGivesUp(p) == FALSE

\* A record the filter rejects is dropped and the pipe moves on.
PipeDrop(p) ==
    /\ PipePending(p)
    /\ ~filterCriteria(PipeCurrent(p))
    /\ pipePos' = [pipePos EXCEPT ![p] = @ + 1]
    /\ UNCHANGED <<table, stream, ingestQueue, ingestDLQ, invocations, budget,
                   handled, pipeAttempts, pipeDLQ, bus, duplicates,
                   checkCount, lastCheck,
                   propertiesBus, sent>>

\* An admitted record is put on the bus (batchSize 1: one record per batch).
PipeDeliver(p) ==
    /\ PipePending(p)
    /\ filterCriteria(PipeCurrent(p))
    /\ pipeAttempts[p] <= maximumRetryAttempts
    /\ bus' = Append(bus, BusEntry(p))
    /\ pipePos' = [pipePos EXCEPT ![p] = @ + 1]
    /\ pipeAttempts' = [pipeAttempts EXCEPT ![p] = 0]
    /\ UNCHANGED <<table, stream, ingestQueue, ingestDLQ, invocations, budget,
                   handled, pipeDLQ, duplicates, checkCount, lastCheck,
                   propertiesBus, sent>>

\* A variant of the pipe that goes on to the next record when a delivery
\* attempt fails.
PipeFailSkips(p, reached) ==
    /\ PipePending(p)
    /\ filterCriteria(PipeCurrent(p))
    /\ ~reached
    /\ pipePos' = [pipePos EXCEPT ![p] = @ + 1]
    /\ UNCHANGED <<table, stream, ingestQueue, ingestDLQ, invocations, budget,
                   handled, pipeAttempts, pipeDLQ, bus, duplicates,
                   checkCount, lastCheck, propertiesBus, sent>>

\* A delivery attempt fails; the record stays current and is retried. The
\* event may have reached the bus although the attempt was reported failed.
PipeFail(p, reached) ==
    /\ PipePending(p)
    /\ filterCriteria(PipeCurrent(p))
    /\ pipeAttempts[p] <= maximumRetryAttempts
    /\ reached => duplicates < MaxDuplicates
    /\ pipeAttempts' = [pipeAttempts EXCEPT ![p] = @ + 1]
    /\ bus' = IF reached THEN Append(bus, BusEntry(p)) ELSE bus
    /\ duplicates' = IF reached THEN duplicates + 1 ELSE duplicates
    /\ UNCHANGED <<table, stream, ingestQueue, ingestDLQ, invocations, budget,
                   handled, pipePos, pipeDLQ, checkCount, lastCheck,
                   propertiesBus, sent>>

\* After the first attempt and maximumRetryAttempts retries have failed the
\* record goes to the pipe's dead-letter queue and the pipe moves on.
PipeDeadLetter(p) ==
    /\ PipePending(p)
    /\ filterCriteria(PipeCurrent(p))
    /\ pipeAttempts[p] > maximumRetryAttempts
    /\ pipeDLQ' = Append(pipeDLQ, DeadLetter(p))
    /\ pipePos' = [pipePos EXCEPT ![p] = @ + 1]
    /\ pipeAttempts' = [pipeAttempts EXCEPT ![p] = 0]
    /\ UNCHANGED <<table, stream, ingestQueue, ingestDLQ, invocations, budget,
                   handled, bus, duplicates, checkCount, lastCheck,
                   propertiesBus, sent>>

PipeFilterOut == \E p \in Properties : PipeDrop(p)
PipePublish == \E p \in Properties : PipeDeliver(p)
PipeRetry == \E p \in Properties, reached \in BOOLEAN : PipeFail(p, reached)
PipeGiveUp == \E p \in Properties : PipeDeadLetter(p)

(* -------------------- ContractExistsCheckerFunction -------------------- *)

ProjectionExpression == {"contract_id", "property_id", "contract_status"}

\* getContractStatus: GetItem with the projection; undefined without an item.
getContractStatusFound(t, propertyId) == propertyId \in DOMAIN t

getContractStatus(t, propertyId) ==
    [a \in (DOMAIN t[propertyId]) \cap ProjectionExpression |-> t[propertyId][a]]

\* A variant of the test that takes an empty contract_id for a contract.
contractExistsIgnoringEmpty(t, propertyId) ==
    /\ getContractStatusFound(t, propertyId)
    /\ HasAttr(getContractStatus(t, propertyId), "contract_id")

\* "No item? No contract?"
contractExists(t, propertyId) ==
    /\ getContractStatusFound(t, propertyId)
    /\ HasAttr(getContractStatus(t, propertyId), "contract_id")
    /\ getContractStatus(t, propertyId)["contract_id"] # ""

\* handler: what the caller gets back, a response or a thrown exception.
checkerOutcome(t, propertyId, readFault) ==
    IF readFault
    THEN [kind |-> "response", statusCode |-> 500, body |-> [error |-> "read fault"]]
    ELSE IF ~contractExists(t, propertyId)
    THEN [kind |-> "throw", name |-> "ContractStatusNotFoundException",
          statusCode |-> NotFoundStatusCode]
    ELSE [kind |-> "response", statusCode |-> 200,
          body |-> getContractStatus(t, propertyId)]

\* A variant of the checker that stores a placeholder item for a property
\* it does not find.
CheckExistsOrCreate(propertyId, readFault) ==
    /\ budget > 0
    /\ budget' = budget - 1
    /\ checkCount' = checkCount + 1
    /\ lastCheck' = [property_id |-> propertyId, readFault |-> readFault,
                     seen |-> Len(handled), reads |-> 1,
                     outcome |-> checkerOutcome(table, propertyId, readFault)]
    /\ table' = IF propertyId \in DOMAIN table THEN table
                ELSE PutItem(table, propertyId, [property_id |-> propertyId])
    /\ UNCHANGED <<stream, ingestQueue, ingestDLQ, invocations,
                   handled, pipePos, pipeAttempts, pipeDLQ, bus, duplicates,
                   propertiesBus, sent>>

\* One call of the handler: it calls getContractStatus once, which sends one
\* GetItem (reads: the number of GetItem calls), and returns or throws.
CheckExists(propertyId, readFault) ==
    /\ budget > 0
    /\ budget' = budget - 1
    /\ checkCount' = checkCount + 1
    /\ lastCheck' = [property_id |-> propertyId, readFault |-> readFault,
                     seen |-> Len(handled), reads |-> 1,
                     outcome |-> checkerOutcome(table, propertyId, readFault)]
    /\ UNCHANGED <<table, stream, ingestQueue, ingestDLQ, invocations,
                   handled, pipePos, pipeAttempts, pipeDLQ, bus, duplicates,
                   propertiesBus, sent>>

ExistsCheck == \E p \in Properties, f \in BOOLEAN : CheckExists(p, f)

(* ------------------------- event send functions ----------------------- *)

\* How evb.send(PutEventsCommand) can end: the entry is accepted by the bus;
\* the client rejects (the call throws); or the call resolves with the entry
\* reported failed (FailedEntryCount 1).
PutEventsOutcomes == {"accepted", "rejects", "failedEntry"}

PutEventsThrows(outcome) == outcome = "rejects"

PutEventsDelivers(outcome) == outcome = "accepted"

\* The entry both send functions build.
EventEntry(source, detailType, propertyId, contractId, contractStatus, now) ==
    [source |-> source,
     detailType |-> detailType,
     detail |-> [contract_last_modified_on |-> now,
                 property_id |-> propertyId,
                 contract_id |-> contractId,
                 contract_status |-> contractStatus]]

\* try { await evb.send(...); await sleep(2000) } catch (error) { console.error }:
\* a throw of evb.send is caught and logged, and the function resolves; the
\* response of a call that resolves is not looked at.
sendReturns(outcome) ==
    IF PutEventsThrows(outcome) THEN [kind |-> "resolved", logged |-> TRUE]
    ELSE [kind |-> "resolved", logged |-> FALSE]

sendEvent(fn, entry, outcome) ==
    /\ Len(sent) < MaxSends
    /\ propertiesBus' = IF PutEventsDelivers(outcome)
                        THEN Append(propertiesBus, entry)
                        ELSE propertiesBus
    /\ sent' = Append(sent, [fn |-> fn, entry |-> entry, outcome |-> outcome,
                             delivered |-> PutEventsDelivers(outcome),
                             returned |-> sendReturns(outcome)])
    /\ UNCHANGED <<table, stream, ingestQueue, ingestDLQ, invocations, budget,
                   handled, pipePos, pipeAttempts, pipeDLQ, bus, duplicates,
                   checkCount, lastCheck>>

sendContractStatusChanged(propertyId, contractId, contractStatus, now, outcome) ==
    sendEvent("sendContractStatusChanged",
              EventEntry("unicorn.contracts", "ContractStatusChanged",
                         propertyId, contractId, contractStatus, now),
              outcome)

sendPublicationApprovalRequested(propertyId, contractId, contractStatus, now, outcome) ==
    sendEvent("sendPublicationApprovalRequested",
              EventEntry("unicorn.web", "PublicationApprovalRequested",
                         propertyId, contractId, contractStatus, now),
              outcome)

SendContractStatusChanged ==
    \E p \in Properties, status \in {DRAFT, APPROVED}, now \in Times,
       outcome \in PutEventsOutcomes :
        sendContractStatusChanged(p, "c1", status, now, outcome)

SendPublicationApprovalRequested ==
    \E p \in Properties, status \in {DRAFT, APPROVED}, now \in Times,
       outcome \in PutEventsOutcomes :
        sendPublicationApprovalRequested(p, "c1", status, now, outcome)

(* --------------------------- specifications ---------------------------- *)

NoCheck == [property_id |-> "", readFault |-> FALSE, seen |-> 0, reads |-> 0,
            outcome |-> [kind |-> "none"]]

Init ==
    /\ \E f \in StartChoices :
          /\ table = StartTable(f)
          /\ stream = StartStream(f)
    /\ budget = MaxRequests
    /\ ingestQueue = EmptyBag
    /\ ingestDLQ = EmptyBag
    /\ invocations = EmptyBag
    /\ handled = <<>>
    /\ pipePos = [p \in Properties |-> 0]
    /\ pipeAttempts = [p \in Properties |-> 0]
    /\ pipeDLQ = <<>>
    /\ bus = <<>>
    /\ duplicates = 0
    /\ checkCount = 0
    /\ lastCheck = NoCheck
    /\ propertiesBus = <<>>
    /\ sent = <<>>

Next ==
    \/ ApiRequest
    \/ LambdaPoll
    \/ IngestRedrive
    \/ HandlerStep
    \/ PipeFilterOut
    \/ PipePublish
    \/ PipeRetry
    \/ PipeGiveUp
    \/ ExistsCheck

Spec == Init /\ [][Next]_vars

\* The same system with one invocation of the handler under way whose event
\* holds three queue records, one of them with a body that is not JSON.
ReceivedRecord(method, body) == [method |-> method, body |-> body, receiveCount |-> 1]

MalformedRecord == ReceivedRecord("PUT", NotJsonBody)

MixedBatches ==
    {<<MalformedRecord, ReceivedRecord("PUT", JsonBody("p1", "c1")),
       ReceivedRecord("PUT", JsonBody("p2", "c1"))>>,
     <<ReceivedRecord("PUT", JsonBody("p1", "c1")), MalformedRecord,
       ReceivedRecord("PUT", JsonBody("p2", "c1"))>>,
     <<ReceivedRecord("PUT", JsonBody("p1", "c1")),
       ReceivedRecord("PUT", JsonBody("p2", "c1")), MalformedRecord>>}

InitBatch ==
    /\ \E f \in StartChoices :
          /\ f["p1"] \in Settled({Item("p1", "c1", DRAFT)})
          /\ f["p2"] \in Removed({Item("p2", "c2", DRAFT)})
          /\ table = StartTable(f)
          /\ stream = StartStream(f)
    /\ budget = MaxRequests - 1
    /\ ingestQueue = EmptyBag
    /\ ingestDLQ = EmptyBag
    /\ \E batch \in MixedBatches :
          invocations = SetToBag({[Records |-> batch, idx |-> 1]})
    /\ handled = <<>>
    /\ pipePos = [p \in Properties |-> 0]
    /\ pipeAttempts = [p \in Properties |-> 0]
    /\ pipeDLQ = <<>>
    /\ bus = <<>>
    /\ duplicates = 0
    /\ checkCount = 0
    /\ lastCheck = NoCheck
    /\ propertiesBus = <<>>
    /\ sent = <<>>

SpecBatch == InitBatch /\ [][Next]_vars

\* The send functions on their own: they share nothing with the pipeline.
NextPublish ==
    \/ SendContractStatusChanged
    \/ SendPublicationApprovalRequested

SpecPublish == Init /\ [][NextPublish]_vars

\* The table after the first n queue records were handled (only the
\* handler writes the table).
TableAfter(n) == IF n < Len(handled) THEN handled[n + 1].before ELSE table

HasStatus(t, p, status) ==
    /\ p \in DOMAIN t
    /\ HasAttr(t[p], "contract_status")
    /\ t[p]["contract_status"] = status

\* The contract_status stored for key p: "absent" without an item, "none"
\* for an item without the attribute.
StoredStatus(t, p) ==
    IF p \notin DOMAIN t THEN "absent"
    ELSE IF HasAttr(t[p], "contract_status") THEN t[p]["contract_status"]
    ELSE "none"

\* The handled records that are creates (updates) for key p.
Creates(p) ==
    {i \in DOMAIN handled : handled[i].branch = "POST" /\ handled[i].body.property_id = p}

Updates(p) ==
    {i \in DOMAIN handled : handled[i].branch = "PUT" /\ handled[i].body.property_id = p}

\* The change records and the bus entries that the i-th handled record caused.
RecordsBy(p, i) == {k \in DOMAIN stream[p] : stream[p][k].by = i}

EventsBy(p, i) ==
    {n \in DOMAIN bus : bus[n].key = p /\ stream[p][bus[n].seq].by = i}

PipeIdle == \A p \in Properties : ~PipePending(p)

\* Whether the k-th change record of key p has an event on the bus, or is on
\* the pipe's dead-letter queue.
PublishedFrom(p, k) == \E n \in DOMAIN bus : bus[n].key = p /\ bus[n].seq = k

DeadLetteredFrom(p, k) ==
    \E n \in DOMAIN pipeDLQ : pipeDLQ[n].key = p /\ pipeDLQ[n].seq = k

\* The pipe polls the stream of every key for as long as it runs: whatever it
\* can do with the current record of a key (drop, deliver, fail, give up), it
\* eventually does one of them.
PipeStep(p) ==
    \/ PipeDrop(p)
    \/ PipeDeliver(p)
    \/ \E reached \in BOOLEAN : PipeFail(p, reached)
    \/ PipeDeadLetter(p)

PipeFairness == \A p \in Properties : WF_vars(PipeStep(p))

\* The system with one request fewer to come.
InitLive ==
    /\ \E f \in StartChoices :
          /\ table = StartTable(f)
          /\ stream = StartStream(f)
    /\ budget = MaxRequests - 1
    /\ ingestQueue = EmptyBag
    /\ ingestDLQ = EmptyBag
    /\ invocations = EmptyBag
    /\ handled = <<>>
    /\ pipePos = [p \in Properties |-> 0]
    /\ pipeAttempts = [p \in Properties |-> 0]
    /\ pipeDLQ = <<>>
    /\ bus = <<>>
    /\ duplicates = 0
    /\ checkCount = 0
    /\ lastCheck = NoCheck
    /\ propertiesBus = <<>>
    /\ sent = <<>>

SpecLive == InitLive /\ [][Next]_vars /\ PipeFairness

\* The same system started with maxConcurrency - 1 updates of p1, whose
\* status is DRAFT, already waiting on the ingest queue.
QueuedUpdates ==
    [m \in {[method |-> "PUT", body |-> JsonBody("p1", "c1"), receiveCount |-> 0]}
        |-> maxConcurrency - 1]

InitConc ==
    /\ \E f \in StartChoices :
          /\ f["p1"] \in Settled({Item("p1", "c1", DRAFT)})
          /\ f["p2"].item = <<>>
          /\ table = StartTable(f)
          /\ stream = StartStream(f)
    /\ budget = MaxRequests - 1
    /\ ingestQueue = QueuedUpdates
    /\ ingestDLQ = EmptyBag
    /\ invocations = EmptyBag
    /\ handled = <<>>
    /\ pipePos = [p \in Properties |-> 0]
    /\ pipeAttempts = [p \in Properties |-> 0]
    /\ pipeDLQ = <<>>
    /\ bus = <<>>
    /\ duplicates = 0
    /\ checkCount = 0
    /\ lastCheck = NoCheck
    /\ propertiesBus = <<>>
    /\ sent = <<>>

SpecConc == InitConc /\ [][Next]_vars

(* ------------------------------ claims --------------------------------- *)

\* C1: for every property P, a Create that finds no record for P is accepted
\* and leaves a record for P with status DRAFT; a Create that finds a record
\* for P is rejected and leaves the table as it was; at most one Create per P
\* is ever accepted.
C1_CreateOnce ==
    \A p \in Properties :
        /\ \A i \in Creates(p) :
              IF p \notin DOMAIN handled[i].before
              THEN /\ ~handled[i].threw
                   /\ HasStatus(TableAfter(i), p, DRAFT)
              ELSE /\ handled[i].threw
                   /\ TableAfter(i) = handled[i].before
        /\ Cardinality({i \in Creates(p) : ~handled[i].threw}) <= 1

\* C2: an Update that finds P's status DRAFT is accepted and sets it to
\* APPROVED; every later Update for P is rejected by a thrown error and
\* leaves the status APPROVED.
C2_UpdateThenReject ==
    \A p \in Properties : \A i \in Updates(p) :
        /\ HasStatus(handled[i].before, p, DRAFT) =>
              /\ ~handled[i].threw
              /\ HasStatus(TableAfter(i), p, APPROVED)
        /\ (\E j \in Updates(p) : j < i /\ ~handled[j].threw) =>
              /\ handled[i].threw
              /\ TableAfter(i) = handled[i].before
              /\ HasStatus(TableAfter(i), p, APPROVED)

\* C2 witness: an accepted Update of a DRAFT record followed by a rejected one.
C2_Witness ==
    \E p \in Properties : \E i, j \in Updates(p) :
        /\ i < j
        /\ HasStatus(handled[i].before, p, DRAFT)
        /\ ~handled[i].threw
        /\ handled[j].threw
        /\ HasStatus(table, p, APPROVED)

\* C3: an Update that finds no record for P is rejected, leaves the table as
\* it was (no record for P), and no change record and no event comes of it.
C3_UpdateAbsent ==
    \A p \in Properties : \A i \in Updates(p) :
        p \notin DOMAIN handled[i].before =>
            /\ handled[i].threw
            /\ TableAfter(i) = handled[i].before
            /\ p \notin DOMAIN table
            /\ RecordsBy(p, i) = {}
            /\ EventsBy(p, i) = {}
            /\ \A n \in DOMAIN bus : bus[n].event.detail.property_id # p

\* C3 witness: such an Update has been handled and the pipe has nothing left to do.
C3_Witness ==
    \E p \in Properties : \E i \in Updates(p) :
        /\ p \notin DOMAIN handled[i].before
        /\ handled[i].threw
        /\ PipeIdle

\* C4: when the only commands handled are Create(p1, c1) and then Update(p1),
\* starting without a record for p1, and the pipe has published everything
\* without a dead letter or a duplicate, the table holds {p1, c1, APPROVED}
\* and exactly one event with contract_status APPROVED is on the bus for p1.
C4_CreateThenUpdate ==
    ( /\ Len(handled) = 2
      /\ handled[1].branch = "POST"
      /\ handled[1].body = JsonBody("p1", "c1")
      /\ "p1" \notin DOMAIN handled[1].before
      /\ handled[2].branch = "PUT"
      /\ handled[2].body.property_id = "p1"
      /\ PipeIdle
      /\ pipeDLQ = <<>>
      /\ duplicates = 0 )
    => /\ HasStatus(table, "p1", APPROVED)
       /\ HasAttr(table["p1"], "contract_id")
       /\ table["p1"]["contract_id"] = "c1"
       /\ Cardinality({n \in DOMAIN bus :
               /\ bus[n].event.detailType = "ContractStatusChanged"
               /\ bus[n].event.detail.property_id = "p1"
               /\ bus[n].event.detail.contract_status = APPROVED}) = 1

\* C5: every accepted Create or Update has exactly one change record, whose
\* NewImage is the item stored by it; once the pipe is past that record, with
\* no dead letter and no duplicate, exactly one event on the bus comes from
\* it, and its property_id, contract_id and contract_status are the item's.
C5_OneRecordOneEvent ==
    \A p \in Properties : \A i \in Creates(p) \cup Updates(p) :
        ~handled[i].threw =>
            /\ Cardinality(RecordsBy(p, i)) = 1
            /\ \A k \in RecordsBy(p, i) :
                  /\ p \in DOMAIN TableAfter(i)
                  /\ stream[p][k].NewImage = TableAfter(i)[p]
                  /\ (k <= pipePos[p] /\ pipeDLQ = <<>> /\ duplicates = 0) =>
                        /\ Cardinality(EventsBy(p, i)) = 1
                        /\ \A n \in EventsBy(p, i) :
                              \A a \in {"property_id", "contract_id", "contract_status"} :
                                  bus[n].event.detail[a] =
                                      TemplateValue(TableAfter(i)[p], a)

\* C6: every event on the bus and every dead letter of the pipe comes from a
\* change record whose eventName is INSERT or MODIFY and whose NewImage has
\* contract_status DRAFT or APPROVED; a record with any other status, or
\* with none, yields no event and no dead letter.
C6_FilterAdmits ==
    /\ \A n \in DOMAIN bus :
          LET rec == stream[bus[n].key][bus[n].seq]
          IN /\ rec.eventName \in {"INSERT", "MODIFY"}
             /\ "contract_status" \in DOMAIN rec.NewImage
             /\ rec.NewImage["contract_status"] \in {"DRAFT", "APPROVED"}
    /\ \A p \in Properties : \A k \in DOMAIN stream[p] :
          LET rec == stream[p][k]
              monitored ==
                  /\ "NewImage" \in DOMAIN rec
                  /\ "contract_status" \in DOMAIN rec.NewImage
                  /\ rec.NewImage["contract_status"] \in {"DRAFT", "APPROVED"}
          IN ~monitored =>
                /\ \A n \in DOMAIN bus : ~(bus[n].key = p /\ bus[n].seq = k)
                /\ \A n \in DOMAIN pipeDLQ :
                      ~(pipeDLQ[n].key = p /\ pipeDLQ[n].seq = k)

\* C6 witness: the pipe is past an INSERT record whose status is not
\* monitored (CANCELLED, or none), and has published another record.
C6_Witness ==
    /\ bus # <<>>
    /\ \E p \in Properties : \E k \in 1..pipePos[p] :
          /\ stream[p][k].eventName = "INSERT"
          /\ ~ ( /\ "contract_status" \in DOMAIN stream[p][k].NewImage
                 /\ stream[p][k].NewImage["contract_status"] \in {DRAFT, APPROVED} )
          /\ \A n \in DOMAIN bus : ~(bus[n].key = p /\ bus[n].seq = k)

\* C7: a check, without read fault, of a property that has no record throws
\* ContractStatusNotFoundException; a check of a property P made after an
\* accepted Create(P, C) that found no record for P, with no accepted Update
\* of P in between, returns 200 with contract_id C and contract_status DRAFT.
C7_CheckAfterCreate ==
    (lastCheck.outcome.kind # "none" /\ ~lastCheck.readFault) =>
        LET p == lastCheck.property_id
            t == TableAfter(lastCheck.seen)
        IN /\ p \notin DOMAIN t =>
                 /\ lastCheck.outcome.kind = "throw"
                 /\ lastCheck.outcome.name = "ContractStatusNotFoundException"
           /\ \A i \in Creates(p) :
                 ( /\ i <= lastCheck.seen
                   /\ ~handled[i].threw
                   /\ p \notin DOMAIN handled[i].before
                   /\ \A j \in Updates(p) :
                         (i < j /\ j <= lastCheck.seen) => handled[j].threw )
                 => /\ lastCheck.outcome.kind = "response"
                    /\ lastCheck.outcome.statusCode = 200
                    /\ "contract_id" \in DOMAIN lastCheck.outcome.body
                    /\ lastCheck.outcome.body["contract_id"] =
                           handled[i].body.contract_id
                    /\ "contract_status" \in DOMAIN lastCheck.outcome.body
                    /\ lastCheck.outcome.body["contract_status"] = DRAFT

\* C8: the result of a check is one of three, decided by the table as the
\* check read it: a read fault gives a 500 response and never the not-found
\* exception; without a fault, an item with a non-empty contract_id gives a
\* 200 response, and no item, or an item whose contract_id is missing or
\* empty, gives the thrown ContractStatusNotFoundException with status code
\* 400, a 4xx code, and never a response.
C8_ThreeOutcomes ==
    lastCheck.outcome.kind # "none" =>
        LET p == lastCheck.property_id
            t == TableAfter(lastCheck.seen)
            out == lastCheck.outcome
            present == /\ p \in DOMAIN t
                       /\ "contract_id" \in DOMAIN t[p]
                       /\ t[p]["contract_id"] # ""
        IN /\ lastCheck.readFault =>
                 /\ out.kind = "response"
                 /\ out.statusCode = 500
           /\ (~lastCheck.readFault /\ present) =>
                 /\ out.kind = "response"
                 /\ out.statusCode = 200
           /\ (~lastCheck.readFault /\ ~present) =>
                 /\ out.kind = "throw"
                 /\ out.name = "ContractStatusNotFoundException"
                 /\ out.statusCode = 400
                 /\ out.statusCode \in 400..499

\* C8 witness: a check, without fault, of an item whose contract_id is empty
\* has thrown the not-found exception.
C8_Witness ==
    /\ lastCheck.outcome.kind = "throw"
    /\ ~lastCheck.readFault
    /\ lastCheck.property_id \in DOMAIN TableAfter(lastCheck.seen)
    /\ "contract_id" \in DOMAIN TableAfter(lastCheck.seen)[lastCheck.property_id]
    /\ TableAfter(lastCheck.seen)[lastCheck.property_id]["contract_id"] = ""

\* C9: a queue record whose HttpMethod is neither POST nor PUT makes the
\* handler throw, and the table is not written.
C9_UnsupportedSignalled ==
    \A i \in DOMAIN handled :
        (handled[i].body.json /\ handled[i].method \notin {"POST", "PUT"}) =>
            /\ handled[i].threw
            /\ ~handled[i].wrote
            /\ TableAfter(i) = handled[i].before

\* C10: when two or more Updates of one property have been handled and one
\* of them found its status DRAFT, exactly one of them was accepted, every
\* other one threw and left the table as it was, the status is APPROVED and
\* the stream of the property holds exactly one MODIFY record.
C10_OneWinner ==
    \A p \in Properties :
        ( /\ Cardinality(Updates(p)) >= 2
          /\ \E i \in Updates(p) : HasStatus(handled[i].before, p, DRAFT) )
        => /\ Cardinality({i \in Updates(p) : ~handled[i].threw}) = 1
           /\ \A i \in Updates(p) :
                 \/ /\ ~handled[i].threw
                    /\ handled[i].wrote
                    /\ HasStatus(handled[i].before, p, DRAFT)
                 \/ /\ handled[i].threw
                    /\ ~handled[i].wrote
                    /\ TableAfter(i) = handled[i].before
           /\ HasStatus(table, p, APPROVED)
           /\ Cardinality({k \in DOMAIN stream[p] :
                              stream[p][k].eventName = "MODIFY"}) = 1

\* C10 witness: three Updates of p1 have been handled, one accepted and the
\* others rejected, while two more invocations are still running.
C10_Witness ==
    /\ Cardinality(Updates("p1")) >= 3
    /\ Cardinality({i \in Updates("p1") : ~handled[i].threw}) = 1
    /\ BagCardinality(invocations) >= 2

\* C11: in every step, the stored contract_status of a property changes only
\* from DRAFT to APPROVED, an item is never removed, and a queue record that
\* writes the table found the status DRAFT.
C11_MonotoneStatus ==
    [][ \A p \in Properties :
            /\ StoredStatus(table', p) # StoredStatus(table, p) =>
                  /\ StoredStatus(table, p) = DRAFT
                  /\ StoredStatus(table', p) = APPROVED
            /\ p \in DOMAIN table => p \in DOMAIN table'
            /\ StoredStatus(table, p) = APPROVED =>
                  StoredStatus(table', p) = APPROVED
            /\ \A i \in (DOMAIN handled') \ (DOMAIN handled) :
                  (handled'[i].wrote /\ handled'[i].body.property_id = p) =>
                      StoredStatus(handled'[i].before, p) = DRAFT ]_vars

\* C11 witness: an Update of a property was accepted, a Create for the same
\* property was handled after it, and the status is still APPROVED.
C11_Witness ==
    \E p \in Properties : \E i \in Updates(p) : \E j \in Creates(p) :
        /\ i < j
        /\ handled[i].wrote
        /\ StoredStatus(handled[i].before, p) = DRAFT
        /\ StoredStatus(table, p) = APPROVED

\* C12: after an accepted Update the stored contract_last_modified_on of the
\* property is the timestamp that Update took, and it is later than the
\* value stored before.
C12_LastModifiedAdvances ==
    \A p \in Properties : \A i \in Updates(p) :
        handled[i].wrote =>
            /\ HasAttr(TableAfter(i)[p], "contract_last_modified_on")
            /\ TableAfter(i)[p]["contract_last_modified_on"] = handled[i].modifiedDate
            /\ HasAttr(handled[i].before[p], "contract_last_modified_on") =>
                  TableAfter(i)[p]["contract_last_modified_on"] >
                      handled[i].before[p]["contract_last_modified_on"]

\* C13: the pipe makes at most 1 + maximumRetryAttempts attempts at a record;
\* it moves past an admitted record only by publishing it or, after all
\* those attempts failed, by putting it on the dead-letter queue; every
\* admitted record the pipe is past is on the bus or on the dead-letter
\* queue; and every admitted record is eventually on one of them (the bus
\* and the dead-letter queue only grow, so it is enough that again and again
\* all admitted records of a key are on one of them).
C13_PublishedOrDeadLettered ==
    /\ [](\A p \in Properties :
            /\ pipeAttempts[p] <= 1 + maximumRetryAttempts
            /\ \A k \in 1..pipePos[p] :
                  filterCriteria(stream[p][k]) =>
                      PublishedFrom(p, k) \/ DeadLetteredFrom(p, k))
    /\ [][ \A p \in Properties :
              (pipePos'[p] # pipePos[p] /\ filterCriteria(PipeCurrent(p))) =>
                  /\ pipePos'[p] = pipePos[p] + 1
                  /\ \/ /\ pipeAttempts[p] <= maximumRetryAttempts
                        /\ bus' = Append(bus, BusEntry(p))
                        /\ pipeDLQ' = pipeDLQ
                     \/ /\ pipeAttempts[p] = 1 + maximumRetryAttempts
                        /\ pipeDLQ' = Append(pipeDLQ, DeadLetter(p))
                        /\ bus' = bus ]_vars
    /\ \A p \in Properties :
          []<>(\A k \in DOMAIN stream[p] :
                  filterCriteria(stream[p][k]) =>
                      PublishedFrom(p, k) \/ DeadLetteredFrom(p, k))

\* C13 witness: the first record of a key went to the dead-letter queue
\* without reaching the bus, and the next record of that key was published.
C13_Witness ==
    \E p \in Properties :
        /\ DeadLetteredFrom(p, 1)
        /\ ~PublishedFrom(p, 1)
        /\ PublishedFrom(p, 2)

\* C14: every call of a send function either delivered its event to the bus
\* or ended by throwing an error named PublishFailed; a call whose event was
\* not delivered never resolves.
C14_DeliversOrFails ==
    \A i \in DOMAIN sent :
        \/ sent[i].delivered
        \/ /\ sent[i].returned.kind = "thrown"
           /\ sent[i].returned.name = "PublishFailed"

\* C15: once the invocation that got a batch of several records has ended,
\* every record of the batch has been handled: the one whose body is not
\* JSON threw and wrote nothing, and each other one, before or after it,
\* was taken through its PUT case.
C15_BatchIsolation ==
    (\A inv \in BagToSet(invocations) : Len(inv.Records) = 1) =>
        \A i \in DOMAIN handled :
            handled[i].batchLen > 1 =>
                /\ ~handled[i].body.json =>
                      /\ handled[i].threw
                      /\ ~handled[i].wrote
                      /\ TableAfter(i) = handled[i].before
                /\ \A k \in 1..handled[i].batchLen :
                      \E j \in DOMAIN handled :
                          /\ handled[j].batchLen = handled[i].batchLen
                          /\ handled[j].idx = k
                          /\ (handled[j].body.json => handled[j].branch = "PUT")

\* C16: an Update that does not find the status DRAFT makes the handler throw
\* without a write; no message is received more than maxReceiveCount (once)
\* times, so no more queue records are handled than commands were sent; and
\* the message of every record that threw is waiting for the dead-letter
\* queue or is on it, never in an invocation again.
C16_RejectedOnce ==
    /\ \A p \in Properties : \A i \in Updates(p) :
          StoredStatus(handled[i].before, p) # DRAFT =>
              /\ handled[i].threw
              /\ ~handled[i].wrote
    /\ \A m \in BagToSet(ingestQueue) \cup BagToSet(ingestDLQ) : m.receiveCount <= 1
    /\ \A m \in BagToSet(ingestDLQ) : m.receiveCount = 1
    /\ \A inv \in BagToSet(invocations) : \A k \in DOMAIN inv.Records :
          inv.Records[k].receiveCount = 1
    /\ Len(handled) <= (MaxRequests - budget) - checkCount
    /\ Cardinality({i \in DOMAIN handled : handled[i].threw}) =
          BagCardinality(ingestDLQ) +
          BagCardinality([m \in {x \in BagToSet(ingestQueue) : x.receiveCount = 1}
                             |-> ingestQueue[m]])

\* C16 witness: an Update was rejected and its message is on the ingest
\* dead-letter queue, received once, with nothing left to deliver.
C16_Witness ==
    /\ \E p \in Properties : \E i \in Updates(p) :
          /\ handled[i].threw
          /\ \E m \in BagToSet(ingestDLQ) :
                m.method = "PUT" /\ m.body = handled[i].body /\ m.receiveCount = 1
    /\ ingestQueue = EmptyBag
    /\ invocations = EmptyBag

\* C17: the events of one property are on the bus in the order of its change
\* records, and when an event of a record is put on the bus, every earlier
\* admitted record of that property already has an event on the bus or is on
\* the dead-letter queue; in particular the APPROVED event of a property
\* never comes before its DRAFT event. Nothing is said across properties.
C17_PerKeyOrder ==
    /\ [](\A n1, n2 \in DOMAIN bus :
             (n1 < n2 /\ bus[n1].key = bus[n2].key) =>
                 /\ bus[n1].seq <= bus[n2].seq
                 /\ ~ ( /\ bus[n1].event.detail.contract_status = APPROVED
                        /\ bus[n2].event.detail.contract_status = DRAFT ))
    /\ [][ \A n \in (DOMAIN bus') \ (DOMAIN bus) :
              \A k \in 1..(bus'[n].seq - 1) :
                  LET rec == stream[bus'[n].key][k]
                  IN ( /\ rec.eventName \in {"INSERT", "MODIFY"}
                       /\ "contract_status" \in DOMAIN rec.NewImage
                       /\ rec.NewImage["contract_status"] \in {DRAFT, APPROVED} )
                     => \/ PublishedFrom(bus'[n].key, k)
                        \/ DeadLetteredFrom(bus'[n].key, k) ]_vars

\* C17 witness: the DRAFT event of a property is on the bus twice, by a
\* retry, and its APPROVED event after both.
C17_Witness ==
    \E p \in Properties : \E n1, n2, n3 \in DOMAIN bus :
        /\ n1 < n2 /\ n2 < n3
        /\ bus[n1].key = p /\ bus[n2].key = p /\ bus[n3].key = p
        /\ bus[n1].seq = 1 /\ bus[n2].seq = 1 /\ bus[n3].seq = 2
        /\ bus[n1].event.detail.contract_status = DRAFT
        /\ bus[n3].event.detail.contract_status = APPROVED

\* C18: every event on the bus that comes from an accepted Update carries the
\* timestamp that Update took as contract_last_modified_on, and that value
\* differs from the one carried by an earlier DRAFT event of the property.
C18_EventTimestamp ==
    \A p \in Properties : \A i \in Updates(p) :
        handled[i].wrote =>
            \A n \in EventsBy(p, i) :
                /\ bus[n].event.detail.contract_last_modified_on =
                       handled[i].modifiedDate
                /\ \A m \in 1..(n - 1) :
                      ( /\ bus[m].key = p
                        /\ bus[m].event.detail.contract_status = DRAFT )
                      => bus[m].event.detail.contract_last_modified_on #
                             bus[n].event.detail.contract_last_modified_on

\* C19: the item of a property keeps its property_id, which is its key, and
\* its contract_id (or the lack of one) in every step, whatever contract_id
\* the command carries; and a queue record on which the handler throws
\* changes nothing in the table.
C19_IdsImmutable ==
    /\ [](\A p \in DOMAIN table : table[p]["property_id"] = p)
    /\ [][ /\ \A p \in DOMAIN table :
                /\ p \in DOMAIN table'
                /\ table'[p]["property_id"] = table[p]["property_id"]
                /\ HasAttr(table'[p], "contract_id") = HasAttr(table[p], "contract_id")
                /\ HasAttr(table[p], "contract_id") =>
                      table'[p]["contract_id"] = table[p]["contract_id"]
           /\ \A i \in (DOMAIN handled') \ (DOMAIN handled) :
                handled'[i].threw => table' = table ]_vars

\* C19 witness: two Updates were accepted, one naming a contract_id other
\* than the stored one and one naming none, and the items have the
\* contract_id they had.
C19_Witness ==
    \E p1, p2 \in Properties : \E i \in Updates(p1) : \E j \in Updates(p2) :
        /\ handled[i].wrote
        /\ handled[j].wrote
        /\ "contract_id" \in DOMAIN handled[i].body
        /\ "contract_id" \in DOMAIN handled[i].before[p1]
        /\ handled[i].body.contract_id # handled[i].before[p1]["contract_id"]
        /\ table[p1]["contract_id"] = handled[i].before[p1]["contract_id"]
        /\ "contract_id" \notin DOMAIN handled[j].body
        /\ "contract_id" \in DOMAIN handled[j].before[p2]
        /\ table[p2]["contract_id"] = handled[j].before[p2]["contract_id"]

\* C20: a step that is an existence check, whatever its outcome, reads the
\* table once and leaves the table, the stream, the bus, the queues, the
\* invocations and the pipe as they were, so the commands accepted and the
\* events published are those of the run without the check.
C20_CheckIsPureRead ==
    [][ checkCount' # checkCount =>
            /\ checkCount' = checkCount + 1
            /\ lastCheck'.outcome.kind \in {"response", "throw"}
            /\ lastCheck'.reads = 1
            /\ table' = table
            /\ stream' = stream
            /\ bus' = bus
            /\ pipeDLQ' = pipeDLQ
            /\ pipePos' = pipePos
            /\ pipeAttempts' = pipeAttempts
            /\ ingestQueue' = ingestQueue
            /\ ingestDLQ' = ingestDLQ
            /\ invocations' = invocations
            /\ handled' = handled
            /\ propertiesBus' = propertiesBus ]_vars

\* C20 witness: a check of a property answered 200, and afterwards an Update
\* of that property was accepted and its event published.
C20_Witness ==
    /\ lastCheck.outcome.kind = "response"
    /\ lastCheck.outcome.statusCode = 200
    /\ \E i \in Updates(lastCheck.property_id) :
          /\ i > lastCheck.seen
          /\ handled[i].wrote
          /\ EventsBy(lastCheck.property_id, i) # {}

\* C21: every event on the contracts bus is a ContractStatusChanged event of
\* source unicorn.contracts whose property_id, contract_id and
\* contract_status are those of an item the table held, at the start or after
\* one of the queue records handled so far (an attribute the item lacks reads
\* as the empty string in the event); a queue record that wrote nothing has
\* no event; and a step of the handler puts nothing on a bus.
C21_NoPhantomEvents ==
    /\ [](\A n \in DOMAIN bus :
             /\ bus[n].event.source = "unicorn.contracts"
             /\ bus[n].event.detailType = "ContractStatusChanged"
             /\ bus[n].event.detail.property_id = bus[n].key
             /\ \E h \in 0..Len(handled) :
                   /\ bus[n].key \in DOMAIN TableAfter(h)
                   /\ \A a \in {"property_id", "contract_id", "contract_status"} :
                         bus[n].event.detail[a] =
                             IF a \in DOMAIN TableAfter(h)[bus[n].key]
                             THEN TableAfter(h)[bus[n].key][a]
                             ELSE "")
    /\ [](\A i \in DOMAIN handled :
             ~handled[i].wrote =>
                 \A n \in DOMAIN bus : stream[bus[n].key][bus[n].seq].by # i)
    /\ [][ handled' # handled =>
              /\ bus' = bus
              /\ propertiesBus' = propertiesBus ]_vars

\* C21 witness: a command was rejected, another was accepted, and the bus
\* holds the DRAFT event of a record written before the run and the APPROVED
\* event of the accepted Update.
C21_Witness ==
    /\ \E i \in DOMAIN handled : handled[i].threw
    /\ \E n1, n2 \in DOMAIN bus :
          /\ stream[bus[n1].key][bus[n1].seq].by = 0
          /\ bus[n1].event.detail.contract_status = DRAFT
          /\ stream[bus[n2].key][bus[n2].seq].by > 0
          /\ bus[n2].event.detail.contract_status = APPROVED

====
